---- MODULE Spec2Model ----
(***************************************************************************)
(* TechTorch document formatter (src/app.py): the content classification   *)
(* pipeline (text-box extraction, code-block detection, heading / bullet   *)
(* classification, content assembly) and the body pass of the renderer.    *)
(*                                                                         *)
(* A Python str is a sequence of characters; a character is a one-letter   *)
(* string, and a non-ASCII code point is written by its U+XXXX name.       *)
(***************************************************************************)
EXTENDS Integers, Sequences, FiniteSets, TLC

VARIABLES
    pc,             \* position of the pipeline
    pkg,            \* what the uploaded bytes are as a zip package
    xml_boxes,      \* the wps:txbx elements of word/document.xml
    body,           \* the document body: paragraphs and tables, interleaved
    textboxes,      \* extract_textboxes_from_docx's result
    warnings,       \* number of st.warning calls made
    content,        \* the list extract_content_from_docx builds
    textbox_index,  \* the code-block cursor
    para_i,         \* paragraphs of doc.paragraphs already visited
    table_i,        \* tables of doc.tables already visited
    arg,            \* argument of a direct call of is_code_block
    ret,            \* its result
    doc_title,      \* create_formatted_document's doc_title
    subtitle_text,  \* its subtitle_text: <<>> for None, <<text>> for a text
    skip_next_heading,  \* its one-shot skip flag
    item_i,         \* items of content the body pass has visited
    out             \* the elements added to the output document, in order

\* the renderer's own state
renderVars == <<doc_title, subtitle_text, skip_next_heading, item_i, out>>

vars == <<pc, pkg, xml_boxes, body, textboxes, warnings, content,
          textbox_index, para_i, table_i, arg, ret, renderVars>>

------------------------------------------------------------------------------
(* Characters and str methods                                              *)

NL == "\n"
TAB == "\t"
\* the code points of the glyph literals as src/app.py holds them
A_CIRC == "U+00E2"
EURO == "U+20AC"
CENT == "U+00A2"
LDQUO == "U+201C"
\* the bullet and the en-dash themselves
BULLET == "U+2022"
ENDASH == "U+2013"

UpperLetters ==
    <<"A", "B", "C", "D", "E", "F", "G", "H", "I", "J", "K", "L", "M",
      "N", "O", "P", "Q", "R", "S", "T", "U", "V", "W", "X", "Y", "Z">>

LowerLetters ==
    <<"a", "b", "c", "d", "e", "f", "g", "h", "i", "j", "k", "l", "m",
      "n", "o", "p", "q", "r", "s", "t", "u", "v", "w", "x", "y", "z">>

Range(s) == {s[i] : i \in 1..Len(s)}

\* c.upper() and c.lower() of the letters that have another case
UpperOf == [c \in Range(LowerLetters) |->
              UpperLetters[CHOOSE i \in 1..26 : LowerLetters[i] = c]]

LowerOf == [c \in Range(UpperLetters) |->
              LowerLetters[CHOOSE i \in 1..26 : UpperLetters[i] = c]]

IsUpperAZ(c) == c \in DOMAIN LowerOf

IsDigit(c) == c \in {"0", "1", "2", "3", "4", "5", "6", "7", "8", "9"}

IsSpace(c) == c \in {" ", TAB, NL}

UpperChar(c) == IF c \in DOMAIN UpperOf THEN UpperOf[c] ELSE c

LowerChar(c) == IF c \in DOMAIN LowerOf THEN LowerOf[c] ELSE c

\* str.upper() and str.lower()
Upper(s) == [i \in 1..Len(s) |-> UpperChar(s[i])]

Lower(s) == [i \in 1..Len(s) |-> LowerChar(s[i])]

\* s[i:] with i counted from 1
From(s, i) == SubSeq(s, i, Len(s))

\* str.startswith(prefix)
StartsWith(s, prefix) ==
    /\ Len(prefix) <= Len(s)
    /\ SubSeq(s, 1, Len(prefix)) = prefix

\* the "in" operator on strings: needle in s
Contains(s, needle) ==
    \E i \in 1..(Len(s) - Len(needle) + 1) : SubSeq(s, i, i + Len(needle) - 1) = needle

RECURSIVE LStrip(_)
LStrip(s) ==
    IF s # <<>> /\ IsSpace(Head(s)) THEN LStrip(Tail(s)) ELSE s

RECURSIVE RStrip(_)
RStrip(s) ==
    IF s # <<>> /\ IsSpace(s[Len(s)]) THEN RStrip(SubSeq(s, 1, Len(s) - 1)) ELSE s

\* str.strip()
Strip(s) == RStrip(LStrip(s))

\* text.split('\n')
RECURSIVE SplitLines(_)
SplitLines(s) ==
    IF \E i \in 1..Len(s) : s[i] = NL
    THEN LET i == CHOOSE k \in 1..Len(s) : s[k] = NL /\ \A j \in 1..(k - 1) : s[j] # NL
         IN  <<SubSeq(s, 1, i - 1)>> \o SplitLines(From(s, i + 1))
    ELSE <<s>>

\* '\n'.join(lines)
RECURSIVE JoinLines(_)
JoinLines(lines) ==
    IF lines = <<>> THEN <<>>
    ELSE IF Len(lines) = 1 THEN lines[1]
    ELSE lines[1] \o <<NL>> \o JoinLines(Tail(lines))

\* ''.join(parts)
RECURSIVE Concat(_)
Concat(parts) ==
    IF parts = <<>> THEN <<>> ELSE Head(parts) \o Concat(Tail(parts))

------------------------------------------------------------------------------
(* Code-block detector                                                     *)

code_indicators ==
    << <<"S", "E", "L", "E", "C", "T">>,
       <<"F", "R", "O", "M">>,
       <<"W", "H", "E", "R", "E">>,
       <<"I", "N", "S", "E", "R", "T">>,
       <<"U", "P", "D", "A", "T", "E">>,
       <<"D", "E", "L", "E", "T", "E">>,
       <<"V", "A", "R">>,
       <<"R", "E", "T", "U", "R", "N">>,
       <<"I", "F">>,
       <<"T", "H", "E", "N">>,
       <<"E", "L", "S", "E">>,
       <<"d", "e", "f", " ">>,
       <<"c", "l", "a", "s", "s", " ">>,
       <<"i", "m", "p", "o", "r", "t", " ">>,
       <<"f", "u", "n", "c", "t", "i", "o", "n">>,
       <<"=", " ", "{">>,
       <<"=", ">", " ">>,
       <<"}", ";">>,
       <<"(", ")", ";">> >>

\* indicator.upper(), for each indicator of the list
code_indicators_upper == [k \in 1..Len(code_indicators) |-> Upper(code_indicators[k])]

\* sum(1 for indicator in code_indicators if indicator.upper() in text_upper)
IndicatorMatches(text) ==
    LET text_upper == Upper(text)
    IN  Cardinality({k \in 1..Len(code_indicators) :
                        Contains(text_upper, code_indicators_upper[k])})

\* line.startswith('    ') or line.startswith('\t')
LineIsIndented(line) ==
    \/ StartsWith(line, <<" ", " ", " ", " ">>)
    \/ StartsWith(line, <<TAB>>)

\* sum(1 for line in lines if ...)
IndentedLines(text) ==
    LET lines == SplitLines(text)
    IN  Cardinality({k \in 1..Len(lines) : LineIsIndented(lines[k])})

\* a slip: one indicator is enough
is_code_block_OneMatch(text) ==
    LET matches == IndicatorMatches(text)
        indented_lines == IndentedLines(text)
    IN  matches >= 1 \/ indented_lines >= 3

is_code_block(text) ==
    LET matches == IndicatorMatches(text)
        indented_lines == IndentedLines(text)
    IN  matches >= 2 \/ indented_lines >= 3

------------------------------------------------------------------------------
(* Heading / bullet classifier                                             *)

RECURSIVE DigitRun(_)
\* length of the longest leading run of digits: what \d+ consumes before a non-digit
DigitRun(s) ==
    IF s # <<>> /\ IsDigit(Head(s)) THEN 1 + DigitRun(Tail(s)) ELSE 0

RECURSIVE SpaceRun(_)
\* length of the longest leading run of whitespace: what \s+ consumes before [A-Z]
SpaceRun(s) ==
    IF s # <<>> /\ IsSpace(Head(s)) THEN 1 + SpaceRun(Tail(s)) ELSE 0

\* a regex position: whether the match is still alive, and the text still to match
Alive(rest) == [ok |-> TRUE, rest |-> rest]

Dead == [ok |-> FALSE, rest |-> <<>>]

\* a slip: \d in place of \d+
ReOneDigit(m) ==
    IF m.ok /\ m.rest # <<>> /\ IsDigit(Head(m.rest)) THEN Alive(Tail(m.rest)) ELSE Dead

\* (\d+)
ReDigits(m) ==
    IF m.ok /\ DigitRun(m.rest) >= 1 THEN Alive(From(m.rest, DigitRun(m.rest) + 1)) ELSE Dead

\* \.
ReDot(m) ==
    IF m.ok /\ m.rest # <<>> /\ Head(m.rest) = "." THEN Alive(Tail(m.rest)) ELSE Dead

\* \s+[A-Z]
ReSpacesUpper(m) ==
    /\ m.ok
    /\ SpaceRun(m.rest) >= 1
    /\ Len(m.rest) > SpaceRun(m.rest)
    /\ IsUpperAZ(m.rest[SpaceRun(m.rest) + 1])

\* re.match(r'^(\d+)\.\s+[A-Z]', text)
level1_pattern(text) == ReSpacesUpper(ReDot(ReDigits(Alive(text))))

\* re.match(r'^(\d+)\.(\d+)\s+[A-Z]', text)
level2_pattern(text) == ReSpacesUpper(ReDigits(ReDot(ReDigits(Alive(text)))))

\* re.match(r'^(\d+)\.(\d+)\.(\d+)\s+[A-Z]', text)
level3_pattern(text) ==
    ReSpacesUpper(ReDigits(ReDot(ReDigits(ReDot(ReDigits(Alive(text)))))))

header_keywords ==
    << <<"S", "u", "m", "m", "a", "r", "y">>,
       <<"C", "o", "n", "c", "l", "u", "s", "i", "o", "n">>,
       <<"O", "v", "e", "r", "v", "i", "e", "w">>,
       <<"I", "n", "t", "r", "o", "d", "u", "c", "t", "i", "o", "n">>,
       <<"B", "a", "c", "k", "g", "r", "o", "u", "n", "d">>,
       <<"R", "e", "s", "u", "l", "t", "s">>,
       <<"A", "n", "a", "l", "y", "s", "i", "s">>,
       <<"R", "e", "c", "o", "m", "m", "e", "n", "d", "a", "t", "i", "o", "n", "s">>,
       <<"F", "i", "n", "a", "l", " ", "S", "u", "m", "m", "a", "r", "y">>,
       <<"N", "e", "x", "t", " ", "S", "t", "e", "p", "s">> >>

\* text == keyword or text.startswith(keyword + ':'), for some keyword of the list
KeywordMatch(text) ==
    \E k \in 1..Len(header_keywords) :
        \/ text = header_keywords[k]
        \/ StartsWith(text, header_keywords[k] \o <<":">>)

\* returns "heading1" | "heading2" | "heading3" | "None"; is_bold is not read
is_section_header(text0, is_bold) ==
    LET text == Strip(text0)
    IN  IF level3_pattern(text) THEN "heading3"
        ELSE IF level2_pattern(text) THEN "heading2"
        ELSE IF level1_pattern(text) THEN "heading1"
        ELSE IF KeywordMatch(text) THEN "heading1"
        ELSE "None"

\* the four literals of text.startswith((...)) as the source file spells them
bullet_prefixes ==
    { <<A_CIRC, EURO, CENT>>, <<"-">>, <<"*">>, <<A_CIRC, EURO, LDQUO>> }

\* the character class of the re.sub pattern as the source file spells it
bullet_strip_class == {A_CIRC, EURO, CENT, "-", "*", LDQUO}

\* para is [text, style, numPr, bold]; style is the style's name
is_bullet_point(para, text) ==
    IF Contains(Lower(para.style), <<"l", "i", "s", "t">>) THEN TRUE
    ELSE IF \E pre \in bullet_prefixes : StartsWith(text, pre) THEN TRUE
    ELSE IF StartsWith(text, <<"R", "e", "s", "u", "l", "t", ":">>) THEN TRUE
    ELSE para.numPr

\* re.sub(r'^[...]\s*', '', text)
StripBulletGlyph(text) ==
    IF text # <<>> /\ Head(text) \in bullet_strip_class THEN LStrip(Tail(text)) ELSE text

\* 'following' in text.lower() and ('query' in text.lower() or 'soql' in text.lower())
MentionsQuery(text) ==
    LET lower == Lower(text)
    IN  /\ Contains(lower, <<"f", "o", "l", "l", "o", "w", "i", "n", "g">>)
        /\ \/ Contains(lower, <<"q", "u", "e", "r", "y">>)
           \/ Contains(lower, <<"s", "o", "q", "l">>)

\* a slip: the bullet test put before the title test
ClassifyBulletFirst(para, text) ==
    IF is_bullet_point(para, text)
    THEN [type |-> "bullet", text |-> StripBulletGlyph(text)]
    ELSE IF Contains(Lower(para.style), <<"t", "i", "t", "l", "e">>)
    THEN [type |-> "title", text |-> text]
    ELSE LET header_type == is_section_header(text, para.bold)
         IN  IF header_type # "None"
             THEN [type |-> header_type, text |-> text]
             ELSE [type |-> "paragraph", text |-> text]

\* the if / elif / else of the paragraph loop: the item appended for a paragraph
ClassifyParagraph(para, text) ==
    LET style_name == Lower(para.style)
    IN  IF Contains(style_name, <<"t", "i", "t", "l", "e">>)
        THEN [type |-> "title", text |-> text]
        ELSE IF is_bullet_point(para, text)
        THEN [type |-> "bullet", text |-> StripBulletGlyph(text)]
        ELSE LET header_type == is_section_header(text, para.bold)
             IN  IF header_type # "None"
                 THEN [type |-> header_type, text |-> text]
                 ELSE [type |-> "paragraph", text |-> text]

------------------------------------------------------------------------------
(* Text-box extractor                                                      *)

\* para_texts of one w:p of a text box: the texts of its w:t nodes that are not empty
RECURSIVE ParaTexts(_)
ParaTexts(runs) ==
    IF runs = <<>> THEN <<>>
    ELSE (IF Head(runs) # <<>> THEN <<Head(runs)>> ELSE <<>>) \o ParaTexts(Tail(runs))

\* lines of one text box: one line per w:p that has text
RECURSIVE BoxLines(_)
BoxLines(paras) ==
    IF paras = <<>> THEN <<>>
    ELSE (IF ParaTexts(Head(paras)) # <<>>
          THEN <<Concat(ParaTexts(Head(paras)))>>
          ELSE <<>>) \o BoxLines(Tail(paras))

\* the record appended for a text box that is code
CodeBlockItem(lines) ==
    [type |-> "code_block", lines |-> lines, text |-> JoinLines(lines)]

\* the loop over root.iter(txbx)
RECURSIVE CollectTextboxes(_)
CollectTextboxes(boxes) ==
    IF boxes = <<>> THEN <<>>
    ELSE LET lines == BoxLines(Head(boxes))
         IN  (IF lines # <<>> /\ is_code_block(JoinLines(lines))
              THEN <<CodeBlockItem(lines)>>
              ELSE <<>>) \o CollectTextboxes(Tail(boxes))

\* zipfile.ZipFile raises on bytes that are no zip; ET.fromstring raises on bad XML;
\* a package without word/document.xml skips the if and raises nothing
extract_textboxes_from_docx(package, boxes) ==
    CASE package = "badzip" -> [textboxes |-> <<>>, warned |-> 1]
      [] package = "nopart" -> [textboxes |-> <<>>, warned |-> 0]
      [] package = "badxml" -> [textboxes |-> <<>>, warned |-> 1]
      [] package = "ok"     -> [textboxes |-> CollectTextboxes(boxes), warned |-> 0]

------------------------------------------------------------------------------
(* Content assembler                                                       *)

\* doc.paragraphs and doc.tables: the body's paragraphs, and its tables, in order
DocParagraphs(b) == SelectSeq(b, LAMBDA blk : blk.kind = "p")

DocTables(b) == SelectSeq(b, LAMBDA blk : blk.kind = "tbl")

\* ReadDocument(uploaded_file): whether python-docx can open the package. It finds
\* the main part through the package relationships and parses with its own parser,
\* so a package extract_textboxes_from_docx gave up on may still open
DocumentOpens(package) ==
    CASE package = "ok"     -> {TRUE}
      [] package = "badzip" -> {FALSE}
      [] package = "nopart" -> {TRUE, FALSE}
      [] package = "badxml" -> {TRUE, FALSE}

\* a slip: a cell is dropped when it repeats any earlier cell of the row
RECURSIVE RowDataUnique(_, _)
RowDataUnique(cells, row_data) ==
    IF cells = <<>> THEN row_data
    ELSE LET cell_text == Strip(Head(cells))
         IN  RowDataUnique(Tail(cells),
                           IF cell_text \notin Range(row_data)
                           THEN Append(row_data, cell_text)
                           ELSE row_data)

\* the loop over row.cells: row_data after the cells still to visit
RECURSIVE RowData(_, _)
RowData(cells, row_data) ==
    IF cells = <<>> THEN row_data
    ELSE LET cell_text == Strip(Head(cells))
         IN  RowData(Tail(cells),
                     IF row_data = <<>> \/ cell_text # row_data[Len(row_data)]
                     THEN Append(row_data, cell_text)
                     ELSE row_data)

\* the loop over table.rows: table_data after the rows still to visit
RECURSIVE TableData(_, _)
TableData(rows, table_data) ==
    IF rows = <<>> THEN table_data
    ELSE LET row_data == RowData(Head(rows), <<>>)
         IN  TableData(Tail(rows),
                       IF row_data # <<>> THEN Append(table_data, row_data) ELSE table_data)

TableItem(table_data) == [type |-> "table", data |-> table_data]

\* a slip: content.insert(0, item)
PrependItem(c, item) == <<item>> \o c

\* content.append(item)
AppendItem(c, item) == Append(c, item)

\* if mentions_query and textbox_index < len(textboxes): the content after it
InsertCodeBlock(c, text, boxes, index) ==
    IF MentionsQuery(text) /\ index < Len(boxes)
    THEN AppendItem(c, boxes[index + 1])
    ELSE c

\* a slip: the cursor is never advanced
AdvanceCursorStuck(text, boxes, index) == index

\* ... and the cursor after it
AdvanceCursor(text, boxes, index) ==
    IF MentionsQuery(text) /\ index < Len(boxes) THEN index + 1 ELSE index

\* extract_content_from_docx up to the loops: the text boxes, then ReadDocument
Start ==
    /\ pc = "start"
    /\ LET r == extract_textboxes_from_docx(pkg, xml_boxes)
       IN  /\ textboxes' = r.textboxes
           /\ warnings' = warnings + r.warned
    /\ \E opens \in DocumentOpens(pkg) :
          pc' = IF opens THEN "paragraphs" ELSE "raised"
    /\ content' = <<>>
    /\ textbox_index' = 0
    /\ UNCHANGED <<pkg, xml_boxes, body, para_i, table_i, arg, ret, renderVars>>

\* one pass of "for para in doc.paragraphs"
ParagraphStep ==
    /\ pc = "paragraphs"
    /\ para_i < Len(DocParagraphs(body))
    /\ LET para == DocParagraphs(body)[para_i + 1]
           text == Strip(para.text)
       IN  IF text = <<>>
           THEN UNCHANGED <<content, textbox_index>>
           ELSE /\ content' = InsertCodeBlock(AppendItem(content, ClassifyParagraph(para, text)),
                                              text, textboxes, textbox_index)
                /\ textbox_index' = AdvanceCursor(text, textboxes, textbox_index)
    /\ para_i' = para_i + 1
    /\ UNCHANGED <<pc, pkg, xml_boxes, body, textboxes, warnings, table_i, arg, ret, renderVars>>

\* one pass of "for table in doc.tables", entered when the paragraphs are done
TableStep ==
    /\ pc = "paragraphs"
    /\ para_i = Len(DocParagraphs(body))
    /\ table_i < Len(DocTables(body))
    /\ LET table_data == TableData(DocTables(body)[table_i + 1].rows, <<>>)
       IN  content' = IF table_data # <<>>
                      THEN AppendItem(content, TableItem(table_data))
                      ELSE content
    /\ table_i' = table_i + 1
    /\ UNCHANGED <<pc, pkg, xml_boxes, body, textboxes, warnings, textbox_index,
                   para_i, arg, ret, renderVars>>

\* return content
Return ==
    /\ pc = "paragraphs"
    /\ para_i = Len(DocParagraphs(body))
    /\ table_i = Len(DocTables(body))
    /\ pc' = "returned"
    /\ UNCHANGED <<pkg, xml_boxes, body, textboxes, warnings, content, textbox_index,
                   para_i, table_i, arg, ret, renderVars>>

------------------------------------------------------------------------------
(* Documents the pipeline is run on                                        *)

MaxBlocks == 3
MaxBoxes == 2

StyleNormal == <<"N", "o", "r", "m", "a", "l">>
StyleTitle == <<"T", "i", "t", "l", "e">>
StyleSubtitle == <<"S", "u", "b", "t", "i", "t", "l", "e">>
StyleListBullet == <<"L", "i", "s", "t", " ", "B", "u", "l", "l", "e", "t">>

Para(text, style, numPr) ==
    [kind |-> "p", text |-> text, style |-> style, numPr |-> numPr, bold |-> FALSE]

Table(rows) == [kind |-> "tbl", rows |-> rows]

TextFollowingQuery ==
    <<"f", "o", "l", "l", "o", "w", "i", "n", "g", " ", "q", "u", "e", "r", "y">>
TextBulletFollowingSoql ==
    <<"-", " ", "F", "o", "l", "l", "o", "w", "i", "n", "g", " ", "S", "O", "Q", "L">>
TextFollowing == <<"f", "o", "l", "l", "o", "w", "i", "n", "g">>

\* a text box is its w:p nodes, a w:p its w:t texts
BoxSelect == << << <<"S", "E", "L", "E", "C", "T", " ">>, <<"F", "R", "O", "M", " ", "x">> >> >>
BoxIfThen == << << <<"i", "f", " ", "x">> >>, << <<>> >>, << <<"t", "h", "e", "n", " ", "y">> >> >>
BoxProse == << << <<"s", "e", "l", "e", "c", "t", " ", "o", "n", "e">> >> >>

BoxPool == {BoxSelect, BoxIfThen, BoxProse}

BlockPool ==
    { Para(TextFollowingQuery, StyleNormal, FALSE),
      Para(TextBulletFollowingSoql, StyleNormal, FALSE),
      Para(TextFollowing, StyleTitle, FALSE),
      Para(<<" ", NL>>, StyleNormal, FALSE),
      Table(<< << <<"A">>, <<"A", " ">> >>, << <<"x">>, <<"y">> >> >>),
      Table(<< << <<"B">> >> >>) }

SeqsUpTo(S, n) == UNION {[1..k -> S] : k \in 0..n}

Packages == {"ok", "badzip", "nopart", "badxml"}

\* the renderer before create_formatted_document is called
RenderIdle ==
    /\ doc_title = <<>>
    /\ subtitle_text = <<>>
    /\ skip_next_heading = FALSE
    /\ item_i = 0
    /\ out = <<>>

\* the state common to every run: nothing extracted yet
Fresh ==
    /\ pc = "start"
    /\ RenderIdle
    /\ textboxes = <<>>
    /\ warnings = 0
    /\ content = <<>>
    /\ textbox_index = 0
    /\ para_i = 0
    /\ table_i = 0
    /\ arg = <<>>
    /\ ret = "none"

Init ==
    /\ Fresh
    /\ pkg \in Packages
    /\ xml_boxes \in (IF pkg = "ok" THEN SeqsUpTo(BoxPool, MaxBoxes) ELSE {<<>>})
    /\ body \in SeqsUpTo(BlockPool, MaxBlocks)

Next == Start \/ ParagraphStep \/ TableStep \/ Return

Spec == Init /\ [][Next]_vars

------------------------------------------------------------------------------
(* Documents of one paragraph, of every shape the classifier tells apart   *)

MaxLevels == 4
MaxGap == 2

\* "12", "12.3", "12.3.3", ...: a section number of n components
RECURSIVE SectionNumber(_)
SectionNumber(n) ==
    IF n = 1 THEN <<"1", "2">> ELSE SectionNumber(n - 1) \o <<".", "3">>

\* n whitespace characters
RECURSIVE Gap(_)
Gap(n) == IF n = 0 THEN <<>> ELSE <<(IF n = 2 THEN TAB ELSE " ")>> \o Gap(n - 1)

TextResult == <<"R", "e", "s", "u", "l", "t", ":">>
TextOverview == <<"O", "v", "e", "r", "v", "i", "e", "w">>

PrefixPool ==
    { <<>>, <<"-">>, <<"*">>, <<BULLET>>, <<ENDASH>>,
      <<A_CIRC, EURO, CENT>>, <<A_CIRC, EURO, LDQUO>>, <<EURO>>, TextResult }
    \cup {SectionNumber(n) : n \in 1..MaxLevels}
    \cup {SectionNumber(n) \o <<".">> : n \in 1..MaxLevels}

TailPool ==
    { <<>>, <<"A">>, <<"a">>, TextOverview, TextOverview \o <<":">>,
      TextOverview \o <<" ", "x">> }

ClassifyTexts ==
    { lead \o pre \o Gap(g) \o tail :
        lead \in {<<>>, <<" ">>}, pre \in PrefixPool, g \in 0..MaxGap, tail \in TailPool }

ClassifyParas ==
    { Para(text, style, numPr) :
        text \in ClassifyTexts,
        style \in {StyleNormal, StyleTitle, StyleSubtitle, StyleListBullet},
        numPr \in BOOLEAN }

InitClassify ==
    /\ Fresh
    /\ pkg = "ok"
    /\ xml_boxes = <<BoxSelect>>
    /\ \E p \in ClassifyParas : body = <<p, Table(<< << <<"B">> >> >>)>>

SpecClassify == InitClassify /\ [][Next]_vars

------------------------------------------------------------------------------
(* Direct calls of is_code_block                                           *)

MaxPieces == 5

CodePieces ==
    { <<"S", "E", "L", "E", "C", "T">>, <<"f", "r", "o", "m">>, <<"x">>,
      <<NL>>, <<TAB>>, <<" ", " ">> }

CodeTexts == {Concat(pieces) : pieces \in SeqsUpTo(CodePieces, MaxPieces)}

InitCode ==
    /\ pc = "call"
    /\ arg \in CodeTexts
    /\ ret = "none"
    /\ pkg = "ok"
    /\ xml_boxes = <<>>
    /\ body = <<>>
    /\ textboxes = <<>>
    /\ warnings = 0
    /\ content = <<>>
    /\ textbox_index = 0
    /\ para_i = 0
    /\ table_i = 0
    /\ RenderIdle

\* is_code_block(arg)
CallIsCodeBlock ==
    /\ pc = "call"
    /\ ret' = is_code_block(arg)
    /\ pc' = "called"
    /\ UNCHANGED <<pkg, xml_boxes, body, textboxes, warnings, content, textbox_index,
                   para_i, table_i, arg, renderVars>>

NextCode == CallIsCodeBlock

SpecCode == InitCode /\ [][NextCode]_vars

------------------------------------------------------------------------------
(* Documents of one table                                                  *)

MaxCells == 5

\* cell texts: "A", "A " (the same once trimmed) and "B"
CellPool == { <<"A">>, <<"A", " ">>, <<"B">> }

RowPool == SeqsUpTo(CellPool, MaxCells)

SecondRow == << <<"B">>, <<"A">>, <<"B">> >>

TablePool ==
    {Table(<<>>)} \cup {Table(<<row>>) : row \in RowPool}
                  \cup {Table(<<row, SecondRow>>) : row \in RowPool}

InitTable ==
    /\ Fresh
    /\ pkg = "ok"
    /\ xml_boxes = <<>>
    /\ \E tbl \in TablePool : body = <<tbl, Para(<<"x">>, StyleNormal, FALSE)>>

SpecTable == InitTable /\ [][Next]_vars

------------------------------------------------------------------------------
(* Document renderer                                                       *)

\* doc.add_paragraph(text, style): an element of the output document
Paragraph(style, text) == [kind |-> "paragraph", style |-> style, text |-> text]

\* doc.add_paragraph()
BlankParagraph == Paragraph("Normal", <<>>)

\* doc.add_table(rows, cols) with its cell texts; role tells the two makers apart
Grid(role, cells) == [kind |-> "table", role |-> role, cells |-> cells]

PageBreak == [kind |-> "page_break"]

\* the loop "Find subtitle from content": <<>> when it ends without a break
RECURSIVE FindSubtitle(_, _)
FindSubtitle(items, title) ==
    IF items = <<>> THEN <<>>
    ELSE IF Head(items).type = "title" /\ Head(items).text # title THEN <<Head(items).text>>
    ELSE IF Head(items).type = "heading1" THEN <<Head(items).text>>
    ELSE FindSubtitle(Tail(items), title)

\* the title page: four empty paragraphs, the title, the subtitle when there is one
\* and it differs from the title, organization, date, version, page break
TitlePageElements(title, subtitle) ==
    <<BlankParagraph, BlankParagraph, BlankParagraph, BlankParagraph,
      Paragraph("title", title)>>
    \o (IF subtitle # <<>> /\ subtitle[1] # <<>> /\ subtitle[1] # title
        THEN <<Paragraph("subtitle", subtitle[1])>>
        ELSE <<>>)
    \o <<Paragraph("organization", <<"TechTorch Inc.">>),
         Paragraph("date", <<"As of ", "%B %Y">>),
         Paragraph("version", <<"Version 1.0">>),
         PageBreak>>

\* create_code_block_table: one row per line, one column
create_code_block_table(code_lines) ==
    <<Grid("code", [i \in 1..Len(code_lines) |-> <<code_lines[i]>>])>>

\* create_data_table: the elements it adds. No table for no rows; else a grid of
\* len(table_data) rows and len(table_data[0]) columns (python-docx builds it for 0
\* columns too), a cell written when its column exists, the others left empty
create_data_table(table_data) ==
    IF table_data = <<>> THEN <<>>
    ELSE LET num_rows == Len(table_data)
             num_cols == Len(table_data[1])
         IN  <<Grid("data",
                    [r \in 1..num_rows |->
                        [c \in 1..num_cols |->
                            IF c <= Len(table_data[r]) THEN table_data[r][c] ELSE <<>>]])>>

\* the body of "for item in content" for one item: the elements it adds
RenderedElements(item, skip) ==
    CASE item.type = "title" -> <<>>
      [] item.type = "heading1" ->
            IF skip THEN <<>> ELSE <<Paragraph("Heading 1", item.text)>>
      [] item.type = "heading2" -> <<Paragraph("Heading 2", item.text)>>
      [] item.type = "heading3" -> <<Paragraph("Heading 3", item.text)>>
      [] item.type = "paragraph" -> <<Paragraph("Normal", item.text)>>
      [] item.type = "bullet" -> <<Paragraph("List Bullet", item.text)>>
      [] item.type = "code_block" ->
            <<BlankParagraph>> \o create_code_block_table(item.lines) \o <<BlankParagraph>>
      [] item.type = "table" ->
            <<BlankParagraph>> \o create_data_table(item.data) \o <<BlankParagraph>>
      [] OTHER -> <<>>

\* the skip flag after the item
SkipAfter(item, skip) ==
    IF item.type = "heading1" /\ skip THEN FALSE ELSE skip

\* create_formatted_document up to "MAIN CONTENT": styles, title page, skip flag
TitlePage ==
    /\ pc = "render"
    /\ subtitle_text' = FindSubtitle(content, doc_title)
    /\ out' = out \o TitlePageElements(doc_title, subtitle_text')
    /\ skip_next_heading' = (subtitle_text' # <<>>)
    /\ pc' = "body"
    /\ UNCHANGED <<pkg, xml_boxes, body, textboxes, warnings, content, textbox_index,
                   para_i, table_i, arg, ret, doc_title, item_i>>

\* one pass of "for item in content"
RenderItem ==
    /\ pc = "body"
    /\ item_i < Len(content)
    /\ out' = out \o RenderedElements(content[item_i + 1], skip_next_heading)
    /\ skip_next_heading' = SkipAfter(content[item_i + 1], skip_next_heading)
    /\ item_i' = item_i + 1
    /\ UNCHANGED <<pc, pkg, xml_boxes, body, textboxes, warnings, content, textbox_index,
                   para_i, table_i, arg, ret, doc_title, subtitle_text>>

\* the "End of Document" marker, and return doc
EndOfDocument ==
    /\ pc = "body"
    /\ item_i = Len(content)
    /\ out' = Append(out, Paragraph("end", <<"End of Document">>))
    /\ pc' = "rendered"
    /\ UNCHANGED <<pkg, xml_boxes, body, textboxes, warnings, content, textbox_index,
                   para_i, table_i, arg, ret, doc_title, subtitle_text,
                   skip_next_heading, item_i>>

MaxItems == 3

TextItem(type, text) == [type |-> type, text |-> text]

ItemPool ==
    { TextItem("title", <<"T">>),
      TextItem("title", <<"U">>),
      TextItem("heading1", <<"H">>),
      TextItem("heading2", <<"S">>),
      TextItem("paragraph", <<"x">>),
      CodeBlockItem(<< <<"l">> >>),
      TableItem(<<>>),
      TableItem(<< <<>>, << <<"a">> >> >>),
      TableItem(<< << <<"a">> >>, << <<"b">>, <<"c">> >> >>) }

InitRender ==
    /\ pc = "render"
    /\ content \in SeqsUpTo(ItemPool, MaxItems)
    /\ doc_title \in {<<"T">>, <<"H">>}
    /\ subtitle_text = <<>>
    /\ skip_next_heading = FALSE
    /\ item_i = 0
    /\ out = <<>>
    /\ pkg = "ok"
    /\ xml_boxes = <<>>
    /\ body = <<>>
    /\ textboxes = <<>>
    /\ warnings = 0
    /\ textbox_index = 0
    /\ para_i = 0
    /\ table_i = 0
    /\ arg = <<>>
    /\ ret = "none"

NextRender == TitlePage \/ RenderItem \/ EndOfDocument

SpecRender == InitRender /\ [][NextRender]_vars

------------------------------------------------------------------------------
(* Claims about the assembled sequence                                     *)

\* the paragraphs of the document the loop has visited so far
Visited == SubSeq(DocParagraphs(body), 1, para_i)

\* the tables of the document the loop has visited so far
VisitedTables == SubSeq(DocTables(body), 1, table_i)

Min(a, b) == IF a <= b THEN a ELSE b

\* word occurs in s at some position
Occurs(s, word) ==
    \E i \in 1..Len(s) :
        /\ i + Len(word) - 1 <= Len(s)
        /\ \A k \in 1..Len(word) : s[i + k - 1] = word[k]

\* a paragraph announces a code excerpt: it is not empty after trimming, and its
\* lowercased text holds "following" and one of "query", "soql"
Announcing(text) ==
    /\ Strip(text) # <<>>
    /\ Occurs(Lower(text), TextFollowing)
    /\ \/ Occurs(Lower(text), <<"q", "u", "e", "r", "y">>)
       \/ Occurs(Lower(text), <<"s", "o", "q", "l">>)

AnnouncingVisited == Cardinality({k \in 1..para_i : Announcing(Visited[k].text)})

ItemsOfType(types) == SelectSeq(content, LAMBDA item : item.type \in types)

\* C1: a code block comes only right after the item of an announcing paragraph, the
\* k-th inserted block is the k-th detected one, none is inserted twice, and an
\* announcing paragraph inserts nothing once the blocks are used up: the number of
\* code_block items is min(announcing paragraphs, detected blocks) and the cursor
\* never passes the number of blocks
C1_CodeBlocksFollowAnnouncements ==
    pc \in {"paragraphs", "returned"} =>
        /\ \A j \in 1..Len(content) :
              content[j].type = "code_block" =>
                  /\ j > 1
                  /\ content[j - 1].type \notin {"code_block", "table"}
                  /\ Announcing(content[j - 1].text)
        /\ ItemsOfType({"code_block"}) = SubSeq(textboxes, 1, textbox_index)
        /\ textbox_index = Min(AnnouncingVisited, Len(textboxes))
        /\ textbox_index <= Len(textboxes)

\* three announcing paragraphs met two detected blocks: the third inserted nothing
C1_Witness ==
    /\ pc = "returned"
    /\ Len(textboxes) = 2
    /\ AnnouncingVisited = 3
    /\ Len(ItemsOfType({"code_block"})) = 2

\* C2: every table item comes after every item that is no table, wherever the tables
\* stood among the paragraphs, and the table items are in the document's table order
C2_TablesLast ==
    pc \in {"paragraphs", "returned"} =>
        /\ \A i, j \in 1..Len(content) :
              (i < j /\ content[i].type = "table") => content[j].type = "table"
        /\ LET want == SelectSeq([k \in 1..table_i |-> TableData(VisitedTables[k].rows, <<>>)],
                                 LAMBDA d : d # <<>>)
               have == ItemsOfType({"table"})
           IN  /\ Len(have) = Len(want)
               /\ \A k \in 1..Len(have) : have[k].data = want[k]

\* a table stood first in the body, a paragraph and a second, different table after it
C2_Witness ==
    /\ pc = "returned"
    /\ Len(body) = 3
    /\ body[1].kind = "tbl" /\ body[2].kind = "p" /\ body[3].kind = "tbl"
    /\ body[1] # body[3]
    /\ Len(content) >= 3
    /\ content[1].type # "table"

------------------------------------------------------------------------------
(* Claims about the item a paragraph is given                              *)

\* in a step of the paragraph loop: the paragraph the step visits
StepPara == DocParagraphs(body)[para_i + 1]

\* in a step of the paragraph loop: the step appends item as its first new item
StepEmits(item) ==
    /\ Len(content') > Len(content)
    /\ SubSeq(content', 1, Len(content)) = content
    /\ content'[Len(content) + 1] = item

TitleStyled(para) == Occurs(Lower(para.style), <<"t", "i", "t", "l", "e">>)

\* C3: a non-empty paragraph whose style name contains "title" becomes a title item
\* carrying the trimmed text, whatever the text is and whether or not the paragraph
\* has list-numbering markup
C3_TitleStyleWins ==
    [][ (pc = "paragraphs" /\ para_i' = para_i + 1) =>
            ((Strip(StepPara.text) # <<>> /\ TitleStyled(StepPara)) =>
                StepEmits([type |-> "title", text |-> Strip(StepPara.text)])) ]_vars

\* a title-styled paragraph with numbering markup and a leading "-" became a title
C3_Witness ==
    /\ para_i >= 1
    /\ LET p == Visited[1]
       IN  /\ p.style = StyleSubtitle
           /\ p.numPr
           /\ Strip(p.text) # <<>>
           /\ Head(Strip(p.text)) = "-"
           /\ content # <<>>
           /\ content[1] = [type |-> "title", text |-> Strip(p.text)]

\* the number of "." in s
Dots(s) == Cardinality({i \in 1..Len(s) : s[i] = "."})

\* s is a section number of n components: digits and dots only, n - 1 dots, none of
\* them first, last or next to another
IsSectionNumber(s, n) ==
    /\ s # <<>>
    /\ \A i \in 1..Len(s) : IsDigit(s[i]) \/ s[i] = "."
    /\ Dots(s) = n - 1
    /\ s[1] # "." /\ s[Len(s)] # "."
    /\ \A i \in 1..(Len(s) - 1) : ~(s[i] = "." /\ s[i + 1] = ".")

\* text reads: number, closing, whitespace, an upper-case letter, anything
Numbered(text, n, closing) ==
    \E a \in 1..Len(text) : \E b \in (a + 1)..Len(text) :
        /\ IsSectionNumber(SubSeq(text, 1, a - 1) , n)
        /\ SubSeq(text, a, a + Len(closing) - 1) = closing
        /\ a + Len(closing) < b
        /\ \A i \in (a + Len(closing))..(b - 1) : IsSpace(text[i])
        /\ text[b] \in Range(UpperLetters)

\* ^\d+\.\d+\.\d+\s+[A-Z], ^\d+\.\d+\s+[A-Z] and ^\d+\.\s+[A-Z]
ThreeLevel(text) == Numbered(text, 3, <<>>)

TwoLevel(text) == Numbered(text, 2, <<>>)

OneLevel(text) == Numbered(text, 1, <<".">>)

\* the level the claim gives a text, "None" where it gives none
NumericLevel(text) ==
    IF ThreeLevel(text) THEN "heading3"
    ELSE IF TwoLevel(text) THEN "heading2"
    ELSE IF OneLevel(text) THEN "heading1"
    ELSE "None"

\* C4: a paragraph that is neither title-styled nor a bullet, and whose text matches a
\* numeric section pattern, gets the level of the most specific pattern it matches:
\* three-level heading3, two-level heading2, one-level heading1, also when the text
\* goes on with a keyword
C4_NumericHeadingLevels ==
    [][ (pc = "paragraphs" /\ para_i' = para_i + 1) =>
            LET text == Strip(StepPara.text)
            IN  (/\ text # <<>>
                 /\ ~TitleStyled(StepPara)
                 /\ ~is_bullet_point(StepPara, text)
                 /\ NumericLevel(text) # "None") =>
                    StepEmits([type |-> NumericLevel(text), text |-> text]) ]_vars

\* "12.3 Overview" became a heading2, "12.3.3 A" a heading3 or "12. A" a heading1
C4_Witness ==
    /\ para_i >= 1
    /\ content # <<>>
    /\ Visited[1].style = StyleNormal
    /\ Strip(Visited[1].text) = <<"1", "2", ".", "3", " ">> \o TextOverview
    /\ content[1] = [type |-> "heading2", text |-> Strip(Visited[1].text)]

GlyphSet == {BULLET, "-", "*", ENDASH}

\* C5: a paragraph without a title style whose trimmed text begins with one of the
\* glyphs (bullet, "-", "*", en-dash) or with "Result:" becomes a bullet item; its text
\* is the trimmed text without the leading glyph and the whitespace after it, and a
\* leading "Result:" is kept
C5_GlyphBullets ==
    [][ (pc = "paragraphs" /\ para_i' = para_i + 1) =>
            LET text == Strip(StepPara.text)
            IN  (/\ text # <<>>
                 /\ ~TitleStyled(StepPara)
                 /\ (Head(text) \in GlyphSet \/ StartsWith(text, TextResult))) =>
                    StepEmits([type |-> "bullet",
                               text |-> IF Head(text) \in GlyphSet
                                        THEN LStrip(Tail(text))
                                        ELSE text]) ]_vars

\* C8: every item of the sequence has a non-empty payload: text of a title, heading,
\* paragraph or bullet, lines of a code_block, data of a table
C8_NonEmptyPayload ==
    \A j \in 1..Len(content) :
        CASE content[j].type = "code_block" -> content[j].lines # <<>>
          [] content[j].type = "table" -> content[j].data # <<>>
          [] OTHER -> content[j].text # <<>>

------------------------------------------------------------------------------
(* Claims about the code-block detector                                    *)

\* the indicator tokens that occur in text, letter case aside
IndicatorsIn(text) == {ind \in Range(code_indicators) : Occurs(Lower(text), Lower(ind))}

\* the places where a line of text begins with a tab or with four spaces
IndentedLineStarts(text) ==
    {i \in 1..Len(text) :
        /\ i = 1 \/ text[i - 1] = NL
        /\ \/ text[i] = TAB
           \/ /\ i + 3 <= Len(text)
              /\ \A k \in i..(i + 3) : text[k] = " "}

\* C6: is_code_block is true exactly when at least 2 distinct indicators occur in the
\* text, or at least 3 of its lines begin with a tab or 4 or more spaces; so 1
\* indicator with 0 or 2 indented lines gives false
C6_CodeBlockThresholds ==
    pc = "called" =>
        (ret <=> (\/ Cardinality(IndicatorsIn(arg)) >= 2
                  \/ Cardinality(IndentedLineStarts(arg)) >= 3))

\* one indicator and two indented lines: not code
C6_Witness ==
    /\ pc = "called"
    /\ Cardinality(IndicatorsIn(arg)) = 1
    /\ Cardinality(IndentedLineStarts(arg)) = 2
    /\ ret = FALSE

------------------------------------------------------------------------------
(* Claims about table rows                                                 *)

\* in a step of the table loop: the table the step visits
StepTable == DocTables(body)[table_i + 1]

Trimmed(cells) == [i \in 1..Len(cells) |-> Strip(cells[i])]

\* s with every maximal run of equal neighbours collapsed to its first entry
CollapseRuns(s) ==
    LET keep == {i \in 1..Len(s) : i = 1 \/ s[i] # s[i - 1]}
        pos(k) == CHOOSE i \in keep : Cardinality({j \in keep : j < i}) = k - 1
    IN  [k \in 1..Cardinality(keep) |-> s[pos(k)]]

NoEqualNeighbours(s) == \A i \in 1..(Len(s) - 1) : s[i] # s[i + 1]

\* C7: the row stored for a table row is its trimmed cell texts with every maximal run
\* of equal consecutive cells collapsed to one entry: no two neighbours of a stored
\* row are equal, cells repeated elsewhere in the row stay, rows keep their own
\* lengths, and collapsing a stored row again changes nothing
C7_RowsCollapsed ==
    [][ (pc = "paragraphs" /\ table_i' = table_i + 1) =>
            LET rows == StepTable.rows
                want == SelectSeq([r \in 1..Len(rows) |-> CollapseRuns(Trimmed(rows[r]))],
                                  LAMBDA row : row # <<>>)
            IN  /\ IF want = <<>>
                   THEN content' = content
                   ELSE StepEmits([type |-> "table", data |-> want])
                /\ \A j \in (Len(content) + 1)..Len(content') :
                      \A r \in 1..Len(content'[j].data) :
                          /\ NoEqualNeighbours(content'[j].data[r])
                          /\ RowData(content'[j].data[r], <<>>) = content'[j].data[r] ]_vars

\* rows ["A", "A "] and ["B", "A", "B"] were stored as ["A"] and ["B", "A", "B"]
C7_Witness ==
    /\ table_i = 1
    /\ VisitedTables[1].rows = << << <<"A">>, <<"A", " ">> >>, SecondRow >>
    /\ content # <<>>
    /\ content[Len(content)] =
          [type |-> "table", data |-> << << <<"A">> >>, SecondRow >>]

------------------------------------------------------------------------------
(* Claims about failures                                                   *)

\* C9: in each of the three failure cases (no zip package, no word/document.xml, XML
\* that does not parse) extract_textboxes_from_docx raises nothing, returns an empty
\* sequence and surfaces a warning
C9_FailSoftWithWarning ==
    (pc # "start" /\ pkg \in {"badzip", "nopart", "badxml"}) =>
        /\ textboxes = <<>>
        /\ warnings >= 1

------------------------------------------------------------------------------
(* Claims about the rendered body                                          *)

\* whether the subtitle search stops at this item
IsSubtitleCandidate(item, title) ==
    \/ item.type = "title" /\ item.text # title
    \/ item.type = "heading1"

\* position of the item chosen as the subtitle, 0 when no item is chosen
SubtitleIndex(items, title) ==
    IF \E i \in 1..Len(items) : IsSubtitleCandidate(items[i], title)
    THEN CHOOSE i \in 1..Len(items) :
            /\ IsSubtitleCandidate(items[i], title)
            /\ \A j \in 1..(i - 1) : ~IsSubtitleCandidate(items[j], title)
    ELSE 0

\* C11: in the body pass the items that add nothing are exactly the title items and
\* the one item chosen as the subtitle (the first title item whose text differs from
\* the supplied title, or the first heading1 item, whichever comes first); every other
\* item, a heading1 that was not chosen included, is rendered once, in sequence order
C11_OnlyTitlesAndSubtitleSuppressed ==
    [][ (pc = "body" /\ item_i' = item_i + 1) =>
            LET i == item_i + 1
                item == content[i]
                suppressed == \/ item.type = "title"
                              \/ i = SubtitleIndex(content, doc_title)
            IN  out' = out \o (IF suppressed THEN <<>>
                               ELSE RenderedElements(item, FALSE)) ]_vars

\* C12: for a table item with at least one row, the rendered grid holds every cell
\* string of data at its own (row, column) position, the cells of rows longer than
\* row 0 included
C12_EveryCellRendered ==
    [][ (pc = "body" /\ item_i' = item_i + 1) =>
            LET item == content[item_i + 1]
            IN  (item.type = "table" /\ item.data # <<>>) =>
                    \E k \in (Len(out) + 1)..Len(out') :
                        /\ out'[k].kind = "table"
                        /\ \A r \in 1..Len(item.data) :
                              /\ r \in DOMAIN out'[k].cells
                              /\ \A c \in 1..Len(item.data[r]) :
                                    /\ c \in DOMAIN out'[k].cells[r]
                                    /\ out'[k].cells[r][c] = item.data[r][c] ]_vars

====
